---- MODULE Spec2Model ----
(***************************************************************************)
(* FilmyBuddy (src/filmybuddy.py): a Streamlit page that appends rows to a *)
(* Google sheet and annotates them with TMDb search results.               *)
(*                                                                         *)
(* Strings are sequences of one-character strings.  Python's None, a JSON  *)
(* null and pandas' NaN are the one-element sequences None, Null and NaN,  *)
(* which are no strings (their element is not one character).              *)
(***************************************************************************)
EXTENDS Integers, Sequences, FiniteSets, TLC

VARIABLES
    rows,       \* the sheet "Sheet1": the appended rows, oldest first
    loadCache,  \* st.cache_data store of load_data (one entry: no arguments)
    tmdbCache,  \* st.cache_data store of get_tmdb_data: argument tuple -> value
    flag,       \* per session: 'tmdb_data_cache_cleared' in st.session_state
    provider,   \* what the TMDb endpoint answers (fixed during a behaviour)
    apiKey,     \* st.secrets has a tmdb_api_key
    pc,         \* position of the script run in progress, "idle" between runs
    cur,        \* the session whose script run is in progress
    ev,         \* what triggered the run: interact, button, submit, rerun
    form,       \* the add_movie form's widget values of this run
    df,         \* the DataFrame load_data returned to this run
    idx,        \* the display loop's position in df
    last,       \* the latest get_tmdb_data call: arguments, value, cache hit
    rq,         \* arguments and provider answer of a get_tmdb_recommendations call
    rout        \* what that call did

vars == <<rows, loadCache, tmdbCache, flag, provider, apiKey, pc, cur, ev,
          form, df, idx, last, rq, rout>>

---------------------------------------------------------------------------
(* Bounds *)

MaxYearLen == 5
MaxResults == 2
MaxRows == 2
MaxRecs == 3
MaxCount == 2

---------------------------------------------------------------------------
(* Python values and string operations *)

None == <<"None">>
Null == <<"null">>
NaN == <<"NaN">>

AsciiDigits == {"0", "2"}
\* "u" stands for a non-ASCII decimal digit (e.g. ARABIC-INDIC DIGIT TWO):
\* Python's \d, \D and str.isdigit are Unicode-aware on str.
UnicodeDigits == {"u"}
Whitespace == {" "}
YearChars == AsciiDigits \cup UnicodeDigits \cup Whitespace \cup {"-"}

Min(a, b) == IF a < b THEN a ELSE b

RECURSIVE LStrip(_)
LStrip(s) ==
    IF s # <<>> /\ Head(s) \in Whitespace THEN LStrip(Tail(s)) ELSE s

RECURSIVE RStrip(_)
RStrip(s) ==
    IF s # <<>> /\ s[Len(s)] \in Whitespace
    THEN RStrip(SubSeq(s, 1, Len(s) - 1))
    ELSE s

\* str.strip()
Strip(s) == RStrip(LStrip(s))

IsDigitChar(c) == c \in AsciiDigits \cup UnicodeDigits

RECURSIVE DigitsOnly(_)
\* re.sub(r'\D', '', s)
DigitsOnly(s) ==
    IF s = <<>> THEN <<>>
    ELSE IF IsDigitChar(Head(s)) THEN <<Head(s)>> \o DigitsOnly(Tail(s))
    ELSE DigitsOnly(Tail(s))

\* str.isdigit()
IsDigit(s) == s # <<>> /\ \A i \in 1..Len(s) : IsDigitChar(s[i])

UpperChar(c) ==
    CASE c = "k" -> "K"
      [] c = "o" -> "O"
      [] c = "e" -> "E"
      [] c = "n" -> "N"
      [] OTHER -> c

\* str.upper()
Upper(s) == [i \in 1..Len(s) |-> UpperChar(s[i])]

\* s[:4]
Take4(s) == SubSeq(s, 1, Min(4, Len(s)))

\* bool(v) of None, a JSON null, a str or a float NaN
Truthy(v) == v # None /\ v # Null /\ v # <<>>

\* str(v) of a str or a float NaN
Str(v) == IF v = NaN THEN <<"n", "a", "n">> ELSE v

\* x or y
Or(x, y) == IF Truthy(x) THEN x ELSE y

---------------------------------------------------------------------------
(* The provider's JSON: a candidate is a dict of the search response.  A   *)
(* movie carries title and release_date, a series or person carries name,  *)
(* a series first_air_date; date holds whichever the media_type has.  A    *)
(* field may be Absent (no such key) or Null.                              *)

Absent == <<"absent">>

\* r.get(k, default)
GetD(v, default) == IF v = Absent THEN default ELSE v

\* r.get(k)
Get(v) == GetD(v, Null)

ReleaseDate(r) == IF r.media_type = "movie" THEN r.date ELSE Absent
FirstAirDate(r) == IF r.media_type = "tv" THEN r.date ELSE Absent
TitleOf(r) == IF r.media_type = "movie" THEN <<"T">> ELSE Absent
NameOf(r) == IF r.media_type = "movie" THEN Absent ELSE <<"N">>

NoneResult == [tag |-> "none"]

\* the accepted dict r = results[pos] with the three keys the code adds
Annotated(r, pos, ntitle, nyear) ==
    [tag |-> "cand", pos |-> pos, cand |-> r,
     normalized_title |-> ntitle, normalized_year |-> nyear,
     normalized_type |-> r.media_type]

Return(v, req) == [outcome |-> "return", value |-> v, requested |-> req]
Raise(req) == [outcome |-> "raise", value |-> NoneResult, requested |-> req]

MovieKinds == {"Movie", "Documentary"}
ShowKinds == {"Show", "Anime"}
MediaTypes == {"Movie", "Show", "Documentary", "Anime", "Other"}

\* a poster test that lets every candidate through
HasPosterAlways(r) == TRUE

\* the poster test of both passes: r.get("poster_path") is truthy
HasPoster(r) == Truthy(Get(r.poster))

\* the query parameters sent to /search/multi
SearchParams(title, year) ==
    [query |-> title,
     year |-> IF Truthy(year) /\ Len(year) = 4 /\ IsDigit(year)
              THEN year ELSE Absent]

Catalog ==
    << [media_type |-> "movie", date |-> <<"2","0","2","0","-","0","1">>,
        lang |-> <<"e","n">>, poster |-> <<"/","a">>],
       [media_type |-> "movie", date |-> <<"2","0","0","2","-","0","1">>,
        lang |-> <<"k","o">>, poster |-> <<"/","b">>] >>

\* requests.get(".../search/multi", params).json(): what the endpoint
\* answers.  kind "neterr": a requests.RequestException (no connection, a
\* body that is no JSON); "notobject": JSON that is no object;
\* "nullresults": an object whose "results" is null; "ok": an object whose
\* "results" is the list results (empty when the key is absent).
Respond(prov, params) ==
    CASE prov.policy = "const" -> prov.resp
      [] prov.policy = "down" -> [kind |-> "neterr", results |-> <<>>]
      [] OTHER ->
           [kind |-> "ok",
            results |-> IF params.query = <<>> THEN <<>> ELSE Catalog]

RECURSIVE StrictPass(_, _, _, _, _)
\* the loop "for r in results" from results[i] on; outcome "exhausted" when
\* the loop ends without a return
StrictPass(results, i, media_type, year, language) ==
    IF i > Len(results) THEN [outcome |-> "exhausted"]
    ELSE
      LET r == results[i]
          is_movie == r.media_type = "movie"
          is_tv == r.media_type = "tv"
          d == IF is_movie THEN GetD(ReleaseDate(r), <<>>)
                           ELSE GetD(FirstAirDate(r), <<>>)
          r_year == Take4(d)
          r_title == IF is_movie THEN GetD(TitleOf(r), <<>>)
                                 ELSE GetD(NameOf(r), <<>>)
          next == StrictPass(results, i + 1, media_type, year, language)
      IN  IF ~(is_movie \/ is_tv) THEN next
          ELSE IF d = Null THEN Raise(TRUE)
          ELSE IF media_type \in MovieKinds /\ ~is_movie THEN next
          ELSE IF media_type \in ShowKinds /\ ~is_tv THEN next
          ELSE IF Truthy(year) /\ r_year # year THEN next
          ELSE IF Truthy(language) /\ GetD(r.lang, <<>>) = Null THEN Raise(TRUE)
          ELSE IF Truthy(language)
                  /\ Upper(GetD(r.lang, <<>>)) # Strip(Upper(language)) THEN next
          ELSE IF ~HasPoster(r) THEN next
          ELSE Return(Annotated(r, i, r_title, r_year), TRUE)

\* the fallback after the loop
Fallback(results) ==
    IF Len(results) > 0 /\ HasPoster(results[1])
    THEN LET r == results[1] IN
         IF r.media_type = "absent" THEN Raise(TRUE)
         ELSE Return(Annotated(r, 1,
                               Or(Get(TitleOf(r)), Get(NameOf(r))),
                               Take4(Or(Get(ReleaseDate(r)),
                                        Or(Get(FirstAirDate(r)), <<>>)))),
                     TRUE)
    ELSE Return(NoneResult, TRUE)

\* the body of get_tmdb_data (without the st.cache_data wrapper)
GetTmdbData(key, prov, title0, media_type, year0, language) ==
    IF ~key THEN Return(NoneResult, FALSE)
    ELSE
      LET title == Strip(Str(title0))
          year == IF Truthy(year0) THEN Strip(Str(year0)) ELSE None
          resp == Respond(prov, SearchParams(title, year))
      IN  IF resp.kind = "neterr" THEN Return(NoneResult, TRUE)
          ELSE IF resp.kind = "notobject" THEN Raise(TRUE)
          ELSE IF resp.kind = "nullresults" THEN Raise(TRUE)
          ELSE LET results == resp.results
                   s == StrictPass(results, 1, media_type, year, language)
               IN  IF s.outcome = "exhausted" THEN Fallback(results) ELSE s

\* a slice that forgets count
TakeAll(results, count) == results

\* results[:count] for count >= 0
Take(results, count) == SubSeq(results, 1, Min(count, Len(results)))

\* get_tmdb_recommendations; tmdb_id 0 stands for a falsy id
GetTmdbRecommendations(key, tmdb_id, tmdb_media_type, count, resp) ==
    IF ~key \/ tmdb_id = 0 \/ tmdb_media_type \notin {"movie", "tv"}
    THEN Return(<<>>, FALSE)
    ELSE IF resp.kind = "neterr" THEN Return(<<>>, TRUE)
    ELSE IF resp.kind \in {"notobject", "nullresults"} THEN Raise(TRUE)
    ELSE Return(Take(resp.results, count), TRUE)

---------------------------------------------------------------------------
(* get_tmdb_data and get_tmdb_recommendations applied to bounded inputs *)

SeqsUpTo(S, n) == UNION {[1..k -> S] : k \in 0..n}

D2002 == <<"2","0","0","2","-","0","5">>
D2020 == <<"2","0","2","0","-","1","1">>
Y2002 == <<"2","0","0","2">>
Poster == <<"/","p">>

\* candidates as the provider documents them: a date string or none, an
\* original_language, a poster_path that may be null or empty
Candidates ==
    [media_type : {"movie", "tv"}, date : {D2002, D2020},
     lang : {<<"k","o">>, <<"e","n">>}, poster : {Null, Poster}]
    \cup [media_type : {"person"}, date : {Absent},
          lang : {Absent}, poster : {Null, Poster}]
    \cup {[media_type |-> "movie", date |-> <<>>, lang |-> <<"k","o">>,
           poster |-> Poster],
          [media_type |-> "tv", date |-> Absent, lang |-> <<"e","n">>,
           poster |-> <<>>]}

\* candidates with a null or missing field
BrokenCandidates ==
    {[media_type |-> "movie", date |-> Null, lang |-> <<"k","o">>,
      poster |-> Poster],
     [media_type |-> "tv", date |-> D2002, lang |-> Null, poster |-> Null],
     [media_type |-> "absent", date |-> Absent, lang |-> <<"e","n">>,
      poster |-> Poster]}

\* year arguments: the default None, the NaN load_data leaves for an empty
\* cell, and strings
Years == {None, NaN, Y2002, <<"0","2">>, <<" ","2","0","0","2">>}
Languages == {<<>>, <<"K","O">>, <<"k","o">>}
Queries ==
    [title : {<<"a">>}, media_type : MediaTypes, year : Years,
     language : Languages]

Const(resp) == [policy |-> "const", resp |-> resp]
Ok(results) == [kind |-> "ok", results |-> results]
Failure(kind) == [kind |-> kind, results |-> <<>>]

NoQuery == [title |-> <<>>, media_type |-> "Other", year |-> None,
            language |-> <<>>]
NoCall == [called |-> FALSE]
NoRecs == [key |-> FALSE, id |-> 0, kind |-> "None", count |-> 0,
           resp |-> Failure("neterr")]
NoForm == [user |-> <<>>, movie |-> <<>>, type |-> "Other", year |-> <<>>,
           language |-> <<>>]
Sessions == {"s1", "s2"}

NoEntry == [has |-> FALSE]

\* the variables a pure-function specification does not use
Unused ==
    /\ rows = <<>> /\ loadCache = NoEntry /\ tmdbCache = {}
    /\ flag = [s \in Sessions |-> FALSE]
    /\ cur = "s1" /\ ev = "interact" /\ form = NoForm /\ df = <<>> /\ idx = 0

InitResolve ==
    /\ Unused
    /\ pc = "query"
    /\ apiKey \in BOOLEAN
    /\ \E q \in Queries, rs \in SeqsUpTo(Candidates, MaxResults) :
          /\ provider = Const(Ok(rs))
          /\ last = [called |-> FALSE, q |-> q]
    /\ rq = NoRecs /\ rout = NoCall

InitFail ==
    /\ Unused
    /\ pc = "query"
    /\ apiKey = TRUE
    /\ \E q \in [title : {<<"a">>}, media_type : {"Movie", "Other"},
                 year : {None, Y2002}, language : {<<>>, <<"K","O">>}],
          resp \in {Failure("neterr"), Failure("notobject"),
                    Failure("nullresults")}
                   \cup {Ok(rs) : rs \in SeqsUpTo(BrokenCandidates
                               \cup {Catalog[1]}, MaxResults)} :
          /\ provider = Const(resp)
          /\ last = [called |-> FALSE, q |-> q]
          /\ rq = [key |-> TRUE, id |-> 1, kind |-> "movie", count |-> MaxCount,
                   resp |-> IF resp.kind = "ok" THEN Ok(<<1, 2, 3>>) ELSE resp]
    /\ rout = NoCall

InitRecs ==
    /\ Unused
    /\ pc = "query"
    /\ apiKey \in BOOLEAN
    /\ provider = Const(Failure("neterr")) /\ last = [called |-> FALSE, q |-> NoQuery]
    /\ \E id \in {0, 1}, kind \in {"movie", "tv", "person", "None"},
          count \in 0..MaxCount, n \in 0..MaxRecs, down \in BOOLEAN :
          rq = [key |-> apiKey, id |-> id, kind |-> kind, count |-> count,
                resp |-> IF down THEN Failure("neterr")
                                 ELSE Ok([i \in 1..n |-> i])]
    /\ rout = NoCall

\* one call of get_tmdb_data(title, media_type, year, language)
ResolveQuery ==
    /\ pc = "query"
    /\ ~last.called
    /\ last' = [called |-> TRUE, q |-> last.q, hit |-> FALSE,
                out |-> GetTmdbData(apiKey, provider, last.q.title,
                                    last.q.media_type, last.q.year,
                                    last.q.language)]
    /\ UNCHANGED <<rows, loadCache, tmdbCache, flag, provider, apiKey, pc, cur,
                   ev, form, df, idx, rq, rout>>

\* one call of get_tmdb_recommendations(tmdb_id, tmdb_media_type, count)
Recommend ==
    /\ pc = "query"
    /\ ~rout.called
    /\ rout' = [called |-> TRUE,
                out |-> GetTmdbRecommendations(rq.key, rq.id, rq.kind, rq.count,
                                               rq.resp)]
    /\ UNCHANGED <<rows, loadCache, tmdbCache, flag, provider, apiKey, pc, cur,
                   ev, form, df, idx, last, rq>>

SpecResolve == InitResolve /\ [][ResolveQuery]_vars
SpecFail == InitFail /\ [][ResolveQuery \/ Recommend]_vars
SpecRecs == InitRecs /\ [][Recommend]_vars

---------------------------------------------------------------------------
(* Claims about get_tmdb_data and get_tmdb_recommendations *)

Resolved == pc = "query" /\ last.called
Results == provider.resp.results
NonEmptyPoster(c) == c.poster \notin {Absent, Null, <<>>}
PosterIdx == {i \in 1..Len(Results) : NonEmptyPoster(Results[i])}
MinOf(S) == CHOOSE m \in S : \A n \in S : m <= n
ReturnsCandidate(i) ==
    /\ last.out.outcome = "return"
    /\ last.out.value.tag = "cand"
    /\ last.out.value.pos = i

\* the strict loop of this call accepted no candidate
StrictExhausted ==
    StrictPass(Results, 1, last.q.media_type,
               IF Truthy(last.q.year) THEN Strip(Str(last.q.year)) ELSE None,
               last.q.language).outcome = "exhausted"

\* C1: when no candidate passes the strict pass and some candidate has a
\* non-empty poster, get_tmdb_data returns the first poster-bearing
\* candidate in provider order, whatever its index.
C1_FallbackFirstPoster ==
    (Resolved /\ apiKey /\ StrictExhausted /\ PosterIdx # {})
        => ReturnsCandidate(MinOf(PosterIdx))

\* the strict conditions as the claim states them
YearSet(y) == y \notin {None, NaN, <<>>}
KindAgrees(media_type, c) ==
    /\ c.media_type \in {"movie", "tv"}
    /\ media_type \in MovieKinds => c.media_type = "movie"
    /\ media_type \in ShowKinds => c.media_type = "tv"
StrictOK(q, c) ==
    /\ KindAgrees(q.media_type, c)
    /\ YearSet(q.year) => Take4(GetD(c.date, <<>>)) = q.year
    /\ q.language # <<>> => Upper(c.lang) = q.language
    /\ NonEmptyPoster(c)
StrictIdx == {i \in 1..Len(Results) : StrictOK(last.q, Results[i])}

\* C2: when some candidate satisfies all strict conditions (kind mapping,
\* year equal when the query has one, uppercased language equal when the
\* query has one, poster non-empty), get_tmdb_data returns the first such
\* candidate in provider order.
C2_StrictFirstMatch ==
    (Resolved /\ apiKey /\ StrictIdx # {}) => ReturnsCandidate(MinOf(StrictIdx))

\* C3: when no candidate has a non-empty poster get_tmdb_data returns None,
\* and every candidate it returns, from either pass, has a non-empty poster.
C3_PosterRequired ==
    Resolved =>
        /\ last.out.outcome = "return"
        /\ PosterIdx = {} => last.out.value = NoneResult
        /\ last.out.value.tag = "cand" => NonEmptyPoster(last.out.value.cand)

\* a poster-less candidate that matches kind, year and language was refused
C3_Witness ==
    /\ Resolved /\ apiKey /\ PosterIdx = {}
    /\ last.q.year = Y2002 /\ last.q.language = <<"K","O">>
    /\ \E i \in 1..Len(Results) :
          /\ KindAgrees(last.q.media_type, Results[i])
          /\ Take4(GetD(Results[i].date, <<>>)) = Y2002
          /\ Upper(Results[i].lang) = <<"K","O">>
    /\ last.out.value = NoneResult

\* C4: whatever the provider call does (request failure, malformed or
\* unparsable response, null or missing candidate fields), get_tmdb_data
\* returns None and get_tmdb_recommendations returns an empty sequence;
\* neither raises.
C4_FailureIsNoMatch ==
    /\ Resolved =>
          /\ last.out.outcome = "return"
          /\ provider.resp.kind # "ok" => last.out.value = NoneResult
    /\ rout.called =>
          /\ rout.out.outcome = "return"
          /\ rq.resp.kind # "ok" => rout.out.value = <<>>

IsPrefix(s, t) == Len(s) <= Len(t) /\ s = SubSeq(t, 1, Len(s))

\* C8: get_tmdb_recommendations with a kind outside {movie, tv} returns an
\* empty sequence without a provider request and without raising; with a
\* valid kind it returns at most count entries, the leading entries of the
\* provider's list in provider order.
C8_Recommendations ==
    rout.called =>
        /\ rout.out.outcome = "return"
        /\ rq.kind \notin {"movie", "tv"} =>
              rout.out.value = <<>> /\ ~rout.out.requested
        /\ rq.kind \in {"movie", "tv"} =>
              /\ Len(rout.out.value) <= rq.count
              /\ IsPrefix(rout.out.value, rq.resp.results)

\* a provider list longer than count was cut to its first count entries
C8_Witness ==
    /\ rout.called /\ rq.kind = "tv" /\ rout.out.requested
    /\ Len(rq.resp.results) > rq.count /\ rq.count > 0
    /\ Len(rout.out.value) = rq.count

\* C2's statement holds for every year argument other than the NaN that
\* the page passes for a row without a year
C2_HoldsWithoutNaN == (Resolved /\ last.q.year # NaN) => C2_StrictFirstMatch

---------------------------------------------------------------------------
(* The page: script runs of the sessions over the sheet and the caches *)

\* a sheet row; the status and note columns are carried through unread
Row(user, movie, type, year, language, timestamp) ==
    [user |-> user, movie |-> movie, type |-> type, year |-> year,
     language |-> language, timestamp |-> timestamp]

\* "if not (user and movie)" is false
RequiredFilled(f) == f.user # <<>> /\ f.movie # <<>>

\* a year test that lets every field through
ValidYearAny(year) == TRUE

\* "elif year.strip() and (len(clean_year) != 4)" is false
ValidYear(year) ==
    ~(Strip(year) # <<>> /\ Len(DigitsOnly(Strip(year))) # 4)

\* row_data of the submit handler
RowData(f, timestamp) ==
    Row(Strip(f.user), Strip(f.movie), f.type, DigitsOnly(Strip(f.year)),
        Upper(Strip(f.language)), timestamp)

RECURSIVE DropZeros(_)
DropZeros(s) ==
    IF Len(s) > 1 /\ Head(s) = "0" THEN DropZeros(Tail(s)) ELSE s

\* sheet.get_all_records() numericises a cell of digits: str(int(cell));
\* int() reads the non-ASCII digit "u" as the ASCII digit it stands for
Numericise(cell) ==
    IF IsDigit(cell)
    THEN DropZeros([i \in 1..Len(cell) |->
                       IF cell[i] \in UnicodeDigits THEN "2" ELSE cell[i]])
    ELSE cell

\* the year column of load_data: digits only, NaN when nothing is left
CleanYear(cell) ==
    LET y == DigitsOnly(Numericise(cell)) IN IF y = <<>> THEN NaN ELSE y

\* load_data's DataFrame: newest timestamp first
LoadData(sheet) ==
    LET n == Len(sheet)
        place(i) == CHOOSE j \in 1..n :
            Cardinality({k \in 1..n :
                sheet[k].timestamp > sheet[j].timestamp}) = i - 1
    IN  [i \in 1..n |->
            [sheet[place(i)] EXCEPT !.year = CleanYear(@)]]

\* a key that leaves the year out
CacheKeyNoYear(title, media_type, year, language) ==
    <<title, media_type, None, language>>

\* the arguments st.cache_data hashes for get_tmdb_data
CacheKey(title, media_type, year, language) ==
    <<title, media_type, year, language>>

Cached(key) == {e \in tmdbCache : e.key = key}

\* get_tmdb_data behind @st.cache_data: the stored value on a hit, else
\* the body's outcome; a returned value (None too) is stored, a raise is not
CallTmdb(r) ==
    LET key == CacheKey(r.movie, r.type, r.year, r.language)
        q == [title |-> r.movie, media_type |-> r.type, year |-> r.year,
              language |-> r.language]
    IN  IF Cached(key) # {}
        THEN /\ last' = [called |-> TRUE, q |-> q, hit |-> TRUE,
                         out |-> Return((CHOOSE e \in Cached(key) : TRUE).value,
                                        FALSE)]
             /\ tmdbCache' = tmdbCache
        ELSE LET out == GetTmdbData(apiKey, provider, r.movie, r.type, r.year,
                                    r.language)
             IN  /\ last' = [called |-> TRUE, q |-> q, hit |-> FALSE, out |-> out]
                 /\ tmdbCache' =
                        IF out.outcome = "return"
                        THEN tmdbCache \cup {[key |-> key, value |-> out.value]}
                        ELSE tmdbCache

FormInputs ==
    [user : {<<"a">>}, movie : {<<>>, <<"a">>}, type : {"Movie", "Show"},
     year : {<<>>, Y2002, <<"0","2">>}, language : {<<"k","o">>}]

Init ==
    /\ rows = <<>>
    /\ loadCache = NoEntry
    /\ tmdbCache = {}
    /\ flag = [s \in Sessions |-> FALSE]
    /\ provider \in {[policy |-> "catalog"], [policy |-> "down"]}
    /\ apiKey \in BOOLEAN
    /\ pc = "idle" /\ cur = "s1" /\ ev = "interact" /\ form = NoForm
    /\ df = <<>> /\ idx = 0
    /\ last = [called |-> FALSE, q |-> NoQuery]
    /\ rq = NoRecs /\ rout = NoCall

\* a browser event makes the session's script run from the top
BeginRun ==
    /\ pc = "idle"
    /\ \E s \in Sessions, e \in {"interact", "button", "submit"} :
          /\ e = "submit" => Len(rows) < MaxRows
          /\ cur' = s /\ ev' = e
          /\ IF e = "submit" THEN form' \in FormInputs ELSE form' = NoForm
    /\ pc' = "start" /\ idx' = 0
    /\ last' = [called |-> FALSE, q |-> NoQuery]
    /\ UNCHANGED <<rows, loadCache, tmdbCache, flag, provider, apiKey, df, rq,
                   rout>>

\* a start-up that clears whatever the flag says
StartupAlways ==
    /\ pc = "start"
    /\ loadCache' = NoEntry /\ tmdbCache' = {}
    /\ flag' = [flag EXCEPT ![cur] = TRUE]
    /\ pc' = "load"
    /\ UNCHANGED <<rows, provider, apiKey, cur, ev, form, df, idx, last, rq, rout>>

\* lines 11-13: st.cache_data.clear() empties every st.cache_data store
Startup ==
    /\ pc = "start"
    /\ IF ~flag[cur]
       THEN /\ loadCache' = NoEntry /\ tmdbCache' = {}
            /\ flag' = [flag EXCEPT ![cur] = TRUE]
       ELSE UNCHANGED <<loadCache, tmdbCache, flag>>
    /\ pc' = "load"
    /\ UNCHANGED <<rows, provider, apiKey, cur, ev, form, df, idx, last, rq, rout>>

\* line 66: df = load_data(), from the store or from the sheet
Load ==
    /\ pc = "load"
    /\ IF loadCache.has
       THEN df' = loadCache.df /\ loadCache' = loadCache
       ELSE df' = LoadData(rows) /\ loadCache' = [has |-> TRUE, df |-> df']
    /\ pc' = "button"
    /\ UNCHANGED <<rows, tmdbCache, flag, provider, apiKey, cur, ev, form, idx,
                   last, rq, rout>>

\* lines 62-64: reading the sheet fails; the empty frame is returned and stored
LoadFails ==
    /\ pc = "load"
    /\ ~loadCache.has
    /\ df' = <<>> /\ loadCache' = [has |-> TRUE, df |-> <<>>]
    /\ pc' = "button"
    /\ UNCHANGED <<rows, tmdbCache, flag, provider, apiKey, cur, ev, form, idx,
                   last, rq, rout>>

\* lines 164-176: the sidebar button was pressed: clear_caches()
ClearCaches ==
    /\ pc = "button" /\ ev = "button"
    /\ loadCache' = NoEntry /\ tmdbCache' = {}
    /\ flag' = [flag EXCEPT ![cur] = FALSE]
    /\ pc' = "start" /\ ev' = "rerun"
    /\ UNCHANGED <<rows, provider, apiKey, cur, form, df, idx, last, rq, rout>>

ButtonNotPressed ==
    /\ pc = "button" /\ ev # "button"
    /\ pc' = "form"
    /\ UNCHANGED <<rows, loadCache, tmdbCache, flag, provider, apiKey, cur, ev,
                   form, df, idx, last, rq, rout>>

\* line 201: the form was not submitted in this run
FormNotSubmitted ==
    /\ pc = "form" /\ ev # "submit"
    /\ pc' = "display" /\ idx' = 1
    /\ UNCHANGED <<rows, loadCache, tmdbCache, flag, provider, apiKey, cur, ev,
                   form, df, last, rq, rout>>

\* lines 205-208: the warning or the error; the run goes on to the display
FormRejected ==
    /\ pc = "form" /\ ev = "submit"
    /\ ~(RequiredFilled(form) /\ ValidYear(form.year))
    /\ pc' = "display" /\ idx' = 1
    /\ UNCHANGED <<rows, loadCache, tmdbCache, flag, provider, apiKey, cur, ev,
                   form, df, last, rq, rout>>

\* an append that forgets load_data.clear()
AfterAppendClearNothing == loadCache' = loadCache /\ tmdbCache' = tmdbCache

\* what a successful append does to the caches: load_data.clear()
AfterAppend == loadCache' = NoEntry /\ tmdbCache' = tmdbCache

\* lines 210-226: the row is appended, load_data's store cleared, the script
\* rerun.  The timestamp is the row's ordinal: later rows sort first.
FormAppended ==
    /\ pc = "form" /\ ev = "submit"
    /\ RequiredFilled(form) /\ ValidYear(form.year)
    /\ rows' = Append(rows, RowData(form, Len(rows) + 1))
    /\ AfterAppend
    /\ pc' = "start" /\ ev' = "rerun"
    /\ UNCHANGED <<flag, provider, apiKey, cur, form, df, idx, last, rq, rout>>

\* lines 227-228: sheet.append_row raises; st.error, the run goes on
FormAppendFails ==
    /\ pc = "form" /\ ev = "submit"
    /\ RequiredFilled(form) /\ ValidYear(form.year)
    /\ pc' = "display" /\ idx' = 1
    /\ UNCHANGED <<rows, loadCache, tmdbCache, flag, provider, apiKey, cur, ev,
                   form, df, last, rq, rout>>

\* lines 253-256: the grid calls get_tmdb_data for the row df[idx]; an
\* exception out of it ends the run
Display ==
    /\ pc = "display" /\ idx <= Len(df)
    /\ CallTmdb(df[idx])
    /\ idx' = idx + 1
    /\ pc' = IF last'.out.outcome = "raise" THEN "idle" ELSE "display"
    /\ UNCHANGED <<rows, loadCache, flag, provider, apiKey, cur, ev, form, df,
                   rq, rout>>

DisplayDone ==
    /\ pc = "display" /\ idx > Len(df)
    /\ pc' = "recs"
    /\ UNCHANGED <<rows, loadCache, tmdbCache, flag, provider, apiKey, cur, ev,
                   form, df, idx, last, rq, rout>>

\* lines 290-295: get_tmdb_data for df.iloc[0]; the run ends
Recs ==
    /\ pc = "recs"
    /\ IF apiKey /\ Len(df) > 0
       THEN CallTmdb(df[1])
       ELSE UNCHANGED <<tmdbCache, last>>
    /\ pc' = "idle"
    /\ UNCHANGED <<rows, loadCache, flag, provider, apiKey, cur, ev, form, df,
                   idx, rq, rout>>

\* ttl=60: load_data's entry expires
ExpireLoad ==
    /\ loadCache.has
    /\ loadCache' = NoEntry
    /\ UNCHANGED <<rows, tmdbCache, flag, provider, apiKey, pc, cur, ev, form,
                   df, idx, last, rq, rout>>

\* ttl=86400: an entry of get_tmdb_data expires
ExpireTmdb ==
    /\ \E e \in tmdbCache : tmdbCache' = tmdbCache \ {e}
    /\ UNCHANGED <<rows, loadCache, flag, provider, apiKey, pc, cur, ev, form,
                   df, idx, last, rq, rout>>

Next ==
    \/ BeginRun \/ Startup \/ Load \/ LoadFails \/ ClearCaches
    \/ ButtonNotPressed \/ FormNotSubmitted \/ FormRejected \/ FormAppended
    \/ FormAppendFails \/ Display \/ DisplayDone \/ Recs
    \/ ExpireLoad \/ ExpireTmdb

Spec == Init /\ [][Next]_vars

---------------------------------------------------------------------------
(* The submit handler applied to every bounded form input: a run of a     *)
(* session over the empty sheet has reached the form.                     *)

YearInputs == SeqsUpTo(YearChars, MaxYearLen)
NameInputs == {<<>>, <<" ">>, <<"a">>, <<" ", "a">>}

InitForm ==
    /\ rows = <<>>
    /\ loadCache = [has |-> TRUE, df |-> <<>>]
    /\ tmdbCache = {}
    /\ flag = [s \in Sessions |-> s = "s1"]
    /\ provider = [policy |-> "catalog"]
    /\ apiKey = TRUE
    /\ pc = "form" /\ cur = "s1" /\ ev = "submit"
    /\ form \in [user : NameInputs, movie : NameInputs, type : {"Movie"},
                 year : YearInputs, language : {<<" ", "k", "o">>}]
    /\ df = <<>> /\ idx = 0
    /\ last = [called |-> FALSE, q |-> NoQuery]
    /\ rq = NoRecs /\ rout = NoCall

NextForm ==
    \/ Startup \/ Load \/ ButtonNotPressed \/ FormNotSubmitted \/ FormRejected
    \/ FormAppended \/ FormAppendFails \/ Display \/ DisplayDone \/ Recs

SpecForm == InitForm /\ [][NextForm]_vars

---------------------------------------------------------------------------
(* Claims about the page *)

\* C5: after a successful append every memoized resolution entry is gone.
C5_AppendClearsResolutions ==
    [][Len(rows') > Len(rows) => tmdbCache' = {}]_vars

\* C5 as amended: a successful append empties load_data's store and leaves
\* the memoized resolutions as they were.
C5_AppendClearsRowCacheOnly ==
    [][Len(rows') > Len(rows) =>
          loadCache' = NoEntry /\ tmdbCache' = tmdbCache]_vars

\* the rerun right after an append, resolutions from before it still stored
C5_Witness ==
    /\ pc = "start" /\ ev = "rerun" /\ flag[cur]
    /\ Len(rows) = MaxRows
    /\ ~loadCache.has
    /\ tmdbCache # {}

FourAsciiDigits(y) == Len(y) = 4 /\ \A i \in 1..4 : y[i] \in AsciiDigits
FourDigits(y) == Len(y) = 4 /\ \A i \in 1..4 : IsDigitChar(y[i])

\* C6: a submission whose year is non-empty and not exactly 4 ASCII digits
\* is rejected: no row is appended and no provider call is made for it;
\* every appended row has a year that is empty or exactly 4 digits.  (Stated
\* for a field of ASCII characters, read trimmed as the handler reads it.)
C6_YearRejected ==
    /\ (/\ \A i \in 1..Len(form.year) : form.year[i] \notin UnicodeDigits
        /\ Strip(form.year) # <<>>
        /\ ~FourAsciiDigits(Strip(form.year))) =>
          rows = <<>> /\ ~last.called
    /\ \A i \in 1..Len(rows) :
          rows[i].year = <<>> \/ FourDigits(rows[i].year)

\* C6 as amended: a submission whose year, trimmed, is non-empty and does
\* not hold exactly 4 digit characters is rejected (no row, no provider
\* call); every appended row has a year that is empty or exactly 4 digit
\* characters.
C6_YearRejectedAfterCleaning ==
    /\ (Strip(form.year) # <<>> /\ Len(DigitsOnly(form.year)) # 4) =>
          rows = <<>> /\ ~last.called
    /\ \A i \in 1..Len(rows) :
          rows[i].year = <<>> \/ FourDigits(rows[i].year)

\* the two-digit year was refused and the run finished without a call
C6_Witness ==
    /\ pc = "idle" /\ ev = "submit"
    /\ form.user = <<"a">> /\ form.movie = <<"a">>
    /\ form.year = <<"0", "2">>
    /\ rows = <<>> /\ ~last.called

\* C7: a submission whose user or title is blank, whitespace-only
\* included, is rejected with the sheet unchanged; no appended row has an
\* empty user or title.
C7_RequiredFields ==
    /\ (Strip(form.user) = <<>> \/ Strip(form.movie) = <<>>) => rows = <<>>
    /\ \A i \in 1..Len(rows) : rows[i].user # <<>> /\ rows[i].movie # <<>>

Fresh(q) ==
    GetTmdbData(apiKey, provider, q.title, q.media_type, q.year, q.language)
KeyQuery(key) ==
    [title |-> key[1], media_type |-> key[2], year |-> key[3],
     language |-> key[4]]

\* C9: against the unchanged provider, a get_tmdb_data call returns what a
\* fresh resolution of its arguments returns, whether the provider or the
\* memoized store answered it.
C9_CacheTransparent ==
    /\ last.called =>
          /\ last.out.outcome = Fresh(last.q).outcome
          /\ last.out.value = Fresh(last.q).value
    /\ \A e \in tmdbCache : e.value = Fresh(KeyQuery(e.key)).value

\* a call answered from the store while a different result is stored too
C9_Witness ==
    /\ last.called /\ last.hit
    /\ last.out.value.tag = "cand"
    /\ \E e \in tmdbCache : e.value # last.out.value /\ e.value.tag = "cand"

\* C10: the start-up clear runs exactly when the session's flag is absent
\* and sets it; the flag is removed only by clear_caches, which empties
\* both stores and reruns the script; an append leaves the flag alone.
C10_StartupClearByFlag ==
    [][/\ (pc = "start" /\ pc' = "load") =>
             IF ~flag[cur]
             THEN loadCache' = NoEntry /\ tmdbCache' = {} /\ flag'[cur]
                  /\ \A s \in Sessions \ {cur} : flag'[s] = flag[s]
             ELSE loadCache' = loadCache /\ tmdbCache' = tmdbCache
                  /\ flag' = flag
       /\ \A s \in Sessions : (flag[s] /\ ~flag'[s]) =>
             s = cur /\ pc = "button" /\ ev = "button"
       /\ (pc = "button" /\ ev = "button" /\ pc' # pc) =>
             /\ loadCache' = NoEntry /\ tmdbCache' = {} /\ ~flag'[cur]
             /\ pc' = "start"
       /\ Len(rows') > Len(rows) => flag' = flag /\ pc' = "start"
      ]_vars

\* the rerun clear_caches asked for, about to clear once more
C10_Witness ==
    /\ pc = "start" /\ ev = "rerun" /\ ~flag[cur]
    /\ \E s \in Sessions : flag[s]
    /\ Len(rows) > 0

====
